---- MODULE Spec2Model ----
(***************************************************************************)
(* Model of src/main.cpp: class Plink2Reader.                              *)
(*                                                                         *)
(* The three input files are fixed by Init.  The reader owns three         *)
(* std::ifstream objects (pgen_file, pvar_file, psam_file) and the two     *)
(* counts read from the binary header.  Every public member function is    *)
(* one action; the container the caller passes in is an input of the       *)
(* action, and the record `call` holds what the latest call was given and  *)
(* what it left behind.                                                    *)
(***************************************************************************)
EXTENDS Integers, Sequences, FiniteSets, TLC

VARIABLES
    pgen,           \* contents of the .pgen file (never written)
    pvar,           \* contents of the .pvar file (never written)
    psam,           \* contents of the .psam file (never written)
    missing,        \* which of the three paths cannot be opened ("none" if all can)
    uses,           \* the member functions the caller of this run calls
    phase,          \* "new" | "ready" | "failed" (constructor threw) | "crashed"
    error,          \* what the constructor threw ("none" if nothing)
    pgen_file,      \* stream state of pgen_file: [pos, fail, eof]
    pvar_file,      \* stream state of pvar_file: [next, fail, eof]
    psam_file,      \* stream state of psam_file: [next, fail, eof]
    variant_count,  \* uint32_t variant_count
    sample_count,   \* uint32_t sample_count
    file_size,      \* uint64_t file_size (-1 stands for (uint64_t) pos_type(-1))
    call,           \* the latest member-function call and its outcome
    first           \* history: what the reader's first readGenotypesChunk left

vars == <<pgen, pvar, psam, missing, uses, phase, error, pgen_file, pvar_file,
          psam_file, variant_count, sample_count, file_size, call, first>>

files == <<pgen, pvar, psam, missing, uses>>

(***************************************************************************)
(* Bounds of the model.                                                    *)
(***************************************************************************)
\* The binary header declares MaxArg variants and MaxArg samples, the text
\* files hold up to MaxArg records, and the ranges callers ask for end at
\* MaxArg + 1 at most.
MaxArg == 2

(***************************************************************************)
(* Program constants.                                                      *)
(***************************************************************************)
Magic0 == 108
Magic1 == 27
DataOffset == 11

\* A count large enough for start_variant * sample_count to leave uint32_t.
Big == 2 ^ 16

TAB == 9

Min(a, b) == IF a < b THEN a ELSE b
Max(a, b) == IF a > b THEN a ELSE b

(***************************************************************************)
(* The .pgen file.  A file is its header bytes (up to 11 of them) followed *)
(* by dataLen data bytes; data byte i (counted from 0) is                  *)
(* pat[(i % Len(pat)) + 1], so that a file of 2^30 bytes is a small value. *)
(* Only a file with a complete 11-byte header has data bytes.              *)
(***************************************************************************)
ToLE32(n) ==
    <<n % 256, (n \div 256) % 256, (n \div 65536) % 256, n \div 16777216>>

FromLE32(b) == b[1] + 256 * b[2] + 65536 * b[3] + 16777216 * b[4]

HeaderBytes(magic, mode, vc, sc) == magic \o <<mode>> \o ToLE32(vc) \o ToLE32(sc)

FileLen(f) == Len(f.hdr) + f.dataLen

ByteAt(f, p) ==
    IF p < Len(f.hdr) THEN f.hdr[p + 1]
    ELSE f.pat[((p - Len(f.hdr)) % Len(f.pat)) + 1]

\* Values an uninitialised byte of memory is taken to hold, and values four
\* uninitialised bytes in a row are taken to hold.
GarbageBytes == {0, Magic1, Magic0}
GarbageWords == {<<0, 0, 0, 0>>, <<Magic0, Magic1, 1, 0>>, <<Magic1, Magic0, 0, 0>>}

(***************************************************************************)
(* std::istream on the binary file: [pos, fail, eof].                      *)
(***************************************************************************)
Opened == [pos |-> 0, fail |-> FALSE, eof |-> FALSE]

Good(st) == ~st.fail /\ ~st.eof

\* istream::read(buf, n): the sentry sets failbit on a stream that is not
\* good() and nothing is extracted; otherwise the bytes that exist are copied
\* and a short read sets eofbit | failbit.  Bytes of buf that were not
\* written keep what the memory held (garb, one value per byte of buf).
Read(f, st, n, garb) ==
    IF ~Good(st)
    THEN [buf |-> [i \in 1..n |-> garb[i]], st |-> [st EXCEPT !.fail = TRUE], got |-> 0]
    ELSE LET avail == Max(0, FileLen(f) - st.pos)
             k     == Min(n, avail)
         IN  [buf |-> [i \in 1..n |-> IF i <= k THEN ByteAt(f, st.pos + i - 1) ELSE garb[i]],
              st  |-> [pos |-> st.pos + k, fail |-> k < n, eof |-> k < n],
              got |-> k]

\* istream::seekg(pos): clears eofbit, then does nothing if fail().
SeekG(st, p) ==
    IF st.fail THEN [st EXCEPT !.eof = FALSE]
    ELSE [pos |-> p, fail |-> FALSE, eof |-> FALSE]

\* istream::tellg(): pos_type(-1) if fail().
TellG(st) == IF st.fail THEN -1 ELSE st.pos

(***************************************************************************)
(* Plink2Reader::readHeader (lines 43-63).                                 *)
(***************************************************************************)
\* Line 47 with && in place of ||.
MagicBadAnd(magic) == magic[1] # Magic0 /\ magic[2] # Magic1

\* Line 47: magic[0] != 0x6c || magic[1] != 0x1b
MagicBad(magic) == magic[1] # Magic0 \/ magic[2] # Magic1

readHeader(f, st0, garb) ==
    LET r1 == Read(f, st0, 2, garb)
        r2 == Read(f, r1.st, 1, garb)
        r3 == Read(f, r2.st, 4, garb)
        r4 == Read(f, r3.st, 4, garb)
        atEnd == SeekG(r4.st, FileLen(f))
    IN  IF MagicBad(r1.buf)
        THEN [threw |-> TRUE, st |-> r1.st, vc |-> 0, sc |-> 0, fs |-> 0]
        ELSE [threw |-> FALSE,
              st    |-> SeekG(atEnd, DataOffset),
              vc    |-> FromLE32(r3.buf),
              sc    |-> FromLE32(r4.buf),
              fs    |-> TellG(atEnd)]

(***************************************************************************)
(* Plink2Reader::Plink2Reader (lines 19-34).  A constructor that throws    *)
(* leaves no object: phase "failed" has no successor.                      *)
(***************************************************************************)
Plink2Reader(garb) ==
    IF missing # "none"
    THEN [phase |-> "failed", error |-> "open", st |-> Opened, vc |-> 0, sc |-> 0, fs |-> 0]
    ELSE LET h == readHeader(pgen, Opened, garb)
         IN  IF h.threw
             THEN [phase |-> "failed", error |-> "format", st |-> Opened,
                   vc |-> 0, sc |-> 0, fs |-> 0]
             ELSE [phase |-> "ready", error |-> "none", st |-> h.st,
                   vc |-> h.vc, sc |-> h.sc, fs |-> h.fs]

NoCall == [op |-> "none", args |-> <<>>, before |-> <<>>, after |-> <<>>,
           outcome |-> "none", seekTo |-> -1, reads |-> 0, got |-> 0, overrun |-> FALSE]

Construct ==
    /\ phase = "new"
    /\ \E garb \in (IF FileLen(pgen) < DataOffset THEN GarbageWords
                                                    ELSE {<<0, 0, 0, 0>>}) :
         LET r == Plink2Reader(garb)
         IN  /\ phase' = r.phase
             /\ error' = r.error
             /\ pgen_file' = r.st
             /\ variant_count' = r.vc
             /\ sample_count' = r.sc
             /\ file_size' = r.fs
    /\ UNCHANGED <<files, pvar_file, psam_file, call, first>>

(***************************************************************************)
(* uint32_t arithmetic.  TLC's integers end at 2^31 - 1, so a 32-bit value *)
(* is kept as two 16-bit halves <<hi, lo>> while it is being computed.     *)
(***************************************************************************)
Lo16(x) == x % 65536
Hi16(x) == x \div 65536

\* (a * b + c) mod 2^32 for a, b, c in 0 .. 2^31 - 1, as <<hi, lo>>.
MulAddU32(a, b, c) ==
    LET a0 == Lo16(a)
        a1 == Hi16(a)
        b0 == Lo16(b)
        b1 == Hi16(b)
        X  == (a0 \div 256) * b0
        Y  == (a0 % 256) * b0
        t  == (X % 256) * 256 + Y
        p0hi  == (X \div 256) + (t \div 65536)
        cross == ((a1 * b0) % 65536) + ((a0 * b1) % 65536)
        lo == (t % 65536) + Lo16(c)
        hi == (p0hi + cross + Hi16(c) + (lo \div 65536)) % 65536
    IN  <<hi, lo % 65536>>

\* Line 77: uint64_t start_pos = 11 + (start_variant * sample_count + start_sample) / 4;
\* the product and the sum are uint32_t, the division too; only the final
\* sum is 64 bits wide.
StartPos(start_variant, start_sample) ==
    LET w == MulAddU32(start_variant, sample_count, start_sample)
    IN  DataOffset + (w[1] * 16384 + (w[2] \div 4))

\* Lines 85-86: int genotype = byte & 0x03; (genotype == 3) ? -1 : genotype
Decode(byte) ==
    LET genotype == byte % 4
    IN  IF genotype = 3 THEN -1 ELSE genotype

\* Line 74: genotypes.resize(num_samples, std::vector<int>(num_variants)):
\* rows beyond num_samples are dropped, missing rows are appended as
\* num_variants zeros, and the rows that stay keep their own length.
Resize(genotypes, num_samples, num_variants) ==
    [i \in 1..num_samples |->
        IF i <= Len(genotypes) THEN genotypes[i]
        ELSE [j \in 1..num_variants |-> 0]]

\* Lines 67-69 with the throw placed after a resize to end_sample rows.
RangeErrorLate(genotypes, end_variant, end_sample) ==
    [genotypes |-> Resize(genotypes, end_sample, 0), st |-> pgen_file]

\* Lines 67-69: the throw happens before anything else is touched.
RangeError(genotypes, end_variant, end_sample) ==
    [genotypes |-> genotypes, st |-> pgen_file]

(***************************************************************************)
(* Plink2Reader::readGenotypesChunk (lines 66-89).                         *)
(*   garb  - what the uninitialised `byte` of line 83 holds when the read  *)
(*           of line 84 extracts nothing;                                  *)
(*   oob   - what a write past the end of a row (line 86) does: "crash",   *)
(*           or "silent" (memory outside the row is overwritten and the    *)
(*           container looks unchanged);                                   *)
(*   alloc - whether an allocation of 2^32 - k elements succeeds.          *)
(***************************************************************************)
readGenotypesChunk(genotypes, start_variant, end_variant, start_sample, end_sample, garb, oob, alloc) ==
    IF end_variant > variant_count \/ end_sample > sample_count
    THEN LET e == RangeError(genotypes, end_variant, end_sample)
         IN  [outcome |-> "out_of_range", after |-> e.genotypes, st |-> e.st,
              seekTo |-> -1, reads |-> 0, got |-> 0, overrun |-> FALSE]
    ELSE IF end_variant < start_variant \/ end_sample < start_sample
    THEN \* num_variants or num_samples wraps to 2^32 - k
         IF alloc = "bad_alloc"
         THEN [outcome |-> "bad_alloc", after |-> genotypes, st |-> pgen_file,
               seekTo |-> -1, reads |-> 0, got |-> 0, overrun |-> FALSE]
         ELSE \* both loops are empty: the window is sized, the stream is
              \* positioned and nothing is read
              [outcome |-> "oversized", after |-> <<>>,
               st |-> SeekG(pgen_file, StartPos(start_variant, start_sample)),
               seekTo |-> StartPos(start_variant, start_sample), reads |-> 0, got |-> 0, overrun |-> FALSE]
    ELSE LET num_variants == end_variant - start_variant
             num_samples  == end_sample - start_sample
             rows      == Resize(genotypes, num_samples, num_variants)
             start_pos == StartPos(start_variant, start_sample)
             st1       == SeekG(pgen_file, start_pos)
             n         == num_variants * num_samples
             k         == IF st1.fail THEN 0
                          ELSE Min(n, Max(0, FileLen(pgen) - st1.pos))
             st2       == IF n = 0 THEN st1
                          ELSE IF st1.fail THEN st1
                          ELSE [pos |-> st1.pos + k, fail |-> k < n, eof |-> k < n]
             byte(idx) == IF idx < k THEN ByteAt(pgen, st1.pos + idx) ELSE garb
             window    == [i \in 1..num_samples |->
                             [j \in 1..Len(rows[i]) |->
                                 IF j <= num_variants
                                 THEN Decode(byte((j - 1) * num_samples + (i - 1)))
                                 ELSE rows[i][j]]]
             overrun   == \E i \in 1..num_samples : Len(rows[i]) < num_variants
         IN  IF overrun /\ oob = "crash"
             THEN [outcome |-> "crash", after |-> rows, st |-> st1,
                   seekTo |-> start_pos, reads |-> 0, got |-> 0, overrun |-> TRUE]
             ELSE [outcome |-> "ok", after |-> window, st |-> st2,
                   seekTo |-> start_pos, reads |-> n, got |-> k, overrun |-> overrun]

(***************************************************************************)
(* The text files.  A file is its lines, each a sequence of character      *)
(* codes, and whether the last line ends in a newline.  A text stream is   *)
(* [next, fail, eof], next being the index of the line the next            *)
(* std::getline starts in.                                                 *)
(***************************************************************************)
TextOpened == [next |-> 1, fail |-> FALSE, eof |-> FALSE]

\* std::getline(stream, line): on a stream that is not good() the sentry sets
\* failbit and line keeps its value; otherwise line is erased, a line is
\* extracted, eofbit is set if the end of the file ended it, and failbit if
\* nothing at all was extracted.
GetLine(f, st, line) ==
    IF ~Good(st)
    THEN [st |-> [st EXCEPT !.fail = TRUE], line |-> line]
    ELSE IF st.next <= Len(f.lines)
    THEN [st   |-> [next |-> st.next + 1, fail |-> FALSE,
                    eof |-> (st.next = Len(f.lines) /\ ~f.nl)],
          line |-> f.lines[st.next]]
    ELSE [st |-> [next |-> st.next, fail |-> TRUE, eof |-> TRUE], line |-> <<>>]

\* n calls of std::getline in a row (lines 101-103, 124-126).
RECURSIVE GetLines(_, _, _, _)
GetLines(f, st, line, n) ==
    IF n <= 0 THEN [st |-> st, line |-> line]
    ELSE LET g == GetLine(f, st, line)
         IN  GetLines(f, g.st, g.line, n - 1)

\* std::string::npos; npos + 1 is 0 in size_t arithmetic, as -1 + 1 is here.
Npos == -1

\* std::string::find(ch)
Find(s, ch) ==
    IF \E i \in 1..Len(s) : s[i] = ch
    THEN (CHOOSE i \in 1..Len(s) : s[i] = ch /\ \A j \in 1..(i - 1) : s[j] # ch) - 1
    ELSE Npos

\* std::string::substr(pos, count), pos <= size()
Substr(s, pos, count) ==
    IF count = Npos THEN SubSeq(s, pos + 1, Len(s))
    ELSE SubSeq(s, pos + 1, Min(Len(s), pos + count))

\* Lines 108-109: the text between the first and the second tab.
VariantId(line) ==
    LET id == Substr(line, Find(line, TAB) + 1, Npos)
    IN  Substr(id, 0, Find(id, TAB))

\* Line 131: the text before the first tab.
SampleId(line) == Substr(line, 0, Find(line, TAB))

\* The loops of lines 106-111 and 129-133: one getline and one push_back per
\* index; field is 1 for the variant file and 0 for the sample file.
RECURSIVE ReadIds(_, _, _, _, _, _)
ReadIds(f, st, line, ids, n, field) ==
    IF n <= 0 THEN [st |-> st, ids |-> ids]
    ELSE LET g == GetLine(f, st, line)
             id == IF field = 1 THEN VariantId(g.line) ELSE SampleId(g.line)
         IN  ReadIds(f, g.st, g.line, Append(ids, id), n - 1, field)

\* The body shared by lines 96-111 and 119-133.
ReadInfo(f, st, ids, start, end, field) ==
    LET header == GetLine(f, st, <<>>)
        skip   == GetLines(f, header.st, header.line, start)
        r      == ReadIds(f, skip.st, skip.line, ids, end - start, field)
    IN  [outcome |-> "ok", after |-> r.ids, st |-> r.st, seekTo |-> -1,
         reads |-> 1 + start + Max(0, end - start), got |-> 0, overrun |-> FALSE]

\* Plink2Reader::readVariantInfoChunk (lines 91-112).
readVariantInfoChunk(variant_ids, start_variant, end_variant) ==
    IF end_variant > variant_count
    THEN [outcome |-> "out_of_range", after |-> variant_ids, st |-> pvar_file,
          seekTo |-> -1, reads |-> 0, got |-> 0, overrun |-> FALSE]
    ELSE ReadInfo(pvar, pvar_file, variant_ids, start_variant, end_variant, 1)

\* Plink2Reader::readSampleInfoChunk (lines 114-134).
readSampleInfoChunk(sample_ids, start_sample, end_sample) ==
    IF end_sample > sample_count
    THEN [outcome |-> "out_of_range", after |-> sample_ids, st |-> psam_file,
          seekTo |-> -1, reads |-> 0, got |-> 0, overrun |-> FALSE]
    ELSE ReadInfo(psam, psam_file, sample_ids, start_sample, end_sample, 0)

(***************************************************************************)
(* The files the reader is opened on.                                      *)
(***************************************************************************)
GoodMagic == <<Magic0, Magic1>>
BadMagics == {<<Magic0, 0>>, <<0, Magic1>>, <<Magic1, Magic0>>}
DataPat   == <<1, 2, 3, 0, 254, 7>>

\* A file cut off inside its header keeps this many bytes.
TruncLens == {0, 1, 5}

\* A MaxArg x MaxArg matrix, one byte per genotype (the layout the decode
\* loop of lines 80-88 takes the file to have).
DefaultPgen ==
    [hdr |-> HeaderBytes(GoodMagic, 16, MaxArg, MaxArg), dataLen |-> MaxArg * MaxArg,
     pat |-> DataPat]

PgenFiles ==
    {DefaultPgen,
     \* a mode byte other than 0x10
     [DefaultPgen EXCEPT !.hdr = HeaderBytes(GoodMagic, 1, MaxArg, MaxArg)],
     \* one data byte short
     [DefaultPgen EXCEPT !.dataLen = MaxArg * MaxArg - 1],
     \* counts whose product leaves uint32_t; data up to byte DataOffset + 2^30
     [hdr |-> HeaderBytes(GoodMagic, 16, Big + 1, Big), dataLen |-> 2 ^ 30 + 2,
      pat |-> DataPat]}
    \cup {[DefaultPgen EXCEPT !.hdr = HeaderBytes(bad, 16, MaxArg, MaxArg)] : bad \in BadMagics}
    \cup {[hdr |-> SubSeq(DefaultPgen.hdr, 1, k), dataLen |-> 0, pat |-> DataPat] :
              k \in TruncLens}

HeaderLine == <<35, 72>>
VarLine(i) == <<49, TAB, 96 + i, TAB, 120>>
VarShort(i) == <<49, TAB, 96 + i>>
SamLine(i) == <<64 + i, TAB, 120>>
NoTab(i)   == <<96 + i>>

DefaultPvar == [lines |-> <<HeaderLine>> \o [i \in 1..MaxArg |-> VarLine(i)], nl |-> TRUE]
DefaultPsam == [lines |-> <<HeaderLine>> \o [i \in 1..MaxArg |-> SamLine(i)], nl |-> TRUE]

\* Well-formed files of 0 .. MaxArg records, with and without a final
\* newline; a file with a record that has no tab; an empty file.
PvarFiles ==
    {[lines |-> <<HeaderLine>> \o [i \in 1..n |-> VarLine(i)], nl |-> b] :
        n \in 0..MaxArg, b \in BOOLEAN}
    \cup {[lines |-> <<HeaderLine, NoTab(1), VarShort(2)>>, nl |-> TRUE],
          [lines |-> <<>>, nl |-> TRUE]}

PsamFiles ==
    {[lines |-> <<HeaderLine>> \o [i \in 1..n |-> SamLine(i)], nl |-> b] :
        n \in 0..MaxArg, b \in BOOLEAN}
    \cup {[lines |-> <<HeaderLine, NoTab(1), SamLine(2)>>, nl |-> TRUE],
          [lines |-> <<>>, nl |-> TRUE]}

AllCalls == {"genotypes", "variants", "samples"}

\* The runs explored: every binary file under a caller of readGenotypesChunk,
\* every .pvar file under a caller of readVariantInfoChunk, every .psam file
\* under a caller of readSampleInfoChunk, the default files under a caller
\* that mixes the three, and the default files with one path that cannot
\* be opened.
Scenarios ==
    {[pgen |-> f, pvar |-> DefaultPvar, psam |-> DefaultPsam, missing |-> "none",
      uses |-> {"genotypes"}] : f \in PgenFiles}
    \cup {[pgen |-> DefaultPgen, pvar |-> f, psam |-> DefaultPsam, missing |-> "none",
           uses |-> {"variants"}] : f \in PvarFiles}
    \cup {[pgen |-> DefaultPgen, pvar |-> DefaultPvar, psam |-> f, missing |-> "none",
           uses |-> {"samples"}] : f \in PsamFiles}
    \cup {[pgen |-> DefaultPgen, pvar |-> DefaultPvar, psam |-> DefaultPsam, missing |-> m,
           uses |-> AllCalls] : m \in {"none", "pgen", "pvar", "psam"}}

(***************************************************************************)
(* What callers pass in.                                                   *)
(***************************************************************************)
\* A value no decoding produces, standing for what a container held before.
Stale == 9

\* An empty container, and one whose first row is MaxArg wide and whose
\* second row is one wide.
GenotypeInputs == {<<>>, <<[j \in 1..MaxArg |-> Stale], <<Stale>>>>}

IdInputs == {<<>>, <<<<122>>>>}

\* The ranges [start, end) callers ask for: the first record, all records,
\* the tail, one past the end, an empty range, an inverted range.
Ranges ==
    {<<0, 1>>, <<0, MaxArg>>, <<1, MaxArg>>, <<0, MaxArg + 1>>, <<1, 1>>, <<1, 0>>}

\* A caller that mixes the three calls asks for the first record or for
\* one record too many.
MixedRanges == {<<0, 1>>, <<0, MaxArg + 1>>}

\* For variants there is also a range whose start times the sample count
\* of the big header is 2^32.
VariantRanges == IF uses = AllCalls THEN MixedRanges ELSE Ranges \cup {<<Big, Big + 1>>}

SampleRanges == IF uses = AllCalls THEN MixedRanges ELSE Ranges

InfoRanges == IF uses = AllCalls THEN MixedRanges ELSE Ranges

Init ==
    /\ \E sc \in Scenarios :
         /\ pgen = sc.pgen
         /\ pvar = sc.pvar
         /\ psam = sc.psam
         /\ missing = sc.missing
         /\ uses = sc.uses
    /\ phase = "new"
    /\ error = "none"
    /\ pgen_file = Opened
    /\ pvar_file = TextOpened
    /\ psam_file = TextOpened
    /\ variant_count = 0
    /\ sample_count = 0
    /\ file_size = 0
    /\ call = NoCall
    /\ first = [state |-> "none", window |-> <<>>]

CallRecord(op, args, before, r) ==
    [op |-> op, args |-> args, before |-> before, after |-> r.after,
     outcome |-> r.outcome, seekTo |-> r.seekTo, reads |-> r.reads, got |-> r.got,
     overrun |-> r.overrun]

\* The request the history variable follows: variant 0 of sample 0.
Watched == <<0, 1, 0, 1>>

\* first after a call of readGenotypesChunk: the window the reader's first
\* call left, if that call was the watched request on an empty container
\* and returned.
Remember(c) ==
    IF first.state # "none" THEN first
    ELSE IF c.args = Watched /\ c.before = <<>> /\ c.outcome = "ok"
    THEN [state |-> "window", window |-> c.after]
    ELSE [state |-> "other", window |-> <<>>]

\* The choices a call of readGenotypesChunk leaves open: what an unread byte
\* holds if a read extracts nothing, what a write past the end of a row does
\* if there is one, whether a wrapped size can be allocated if there is one.
Choices(genotypes, v, s) ==
    LET r == readGenotypesChunk(genotypes, v[1], v[2], s[1], s[2], 0, "silent", "ok")
    IN  [garb  |-> IF r.got < r.reads THEN GarbageBytes ELSE {0},
         oob   |-> IF r.overrun THEN {"crash", "silent"} ELSE {"silent"},
         alloc |-> IF r.outcome = "oversized" THEN {"ok", "bad_alloc"} ELSE {"ok"}]

ReadGenotypesChunk ==
    /\ phase = "ready"
    /\ "genotypes" \in uses
    /\ \E genotypes \in GenotypeInputs, v \in VariantRanges, s \in SampleRanges :
         LET c == Choices(genotypes, v, s)
         IN  \E garb \in c.garb, oob \in c.oob, alloc \in c.alloc :
               LET r == readGenotypesChunk(genotypes, v[1], v[2], s[1], s[2],
                                           garb, oob, alloc)
               IN  /\ call' = CallRecord("genotypes", <<v[1], v[2], s[1], s[2]>>,
                                         genotypes, r)
                   /\ first' = Remember(call')
                   /\ pgen_file' = r.st
                   /\ phase' = IF r.outcome = "crash" THEN "crashed" ELSE phase
    /\ UNCHANGED <<files, error, pvar_file, psam_file, variant_count, sample_count, file_size>>

ReadVariantInfoChunk ==
    /\ phase = "ready"
    /\ "variants" \in uses
    /\ \E variant_ids \in IdInputs, v \in InfoRanges :
         LET r == readVariantInfoChunk(variant_ids, v[1], v[2])
         IN  /\ call' = CallRecord("variants", v, variant_ids, r)
             /\ pvar_file' = r.st
    /\ UNCHANGED <<files, phase, error, pgen_file, psam_file, variant_count, sample_count,
                   file_size, first>>

ReadSampleInfoChunk ==
    /\ phase = "ready"
    /\ "samples" \in uses
    /\ \E sample_ids \in IdInputs, s \in InfoRanges :
         LET r == readSampleInfoChunk(sample_ids, s[1], s[2])
         IN  /\ call' = CallRecord("samples", s, sample_ids, r)
             /\ psam_file' = r.st
    /\ UNCHANGED <<files, phase, error, pgen_file, pvar_file, variant_count, sample_count,
                   file_size, first>>

Next ==
    \/ Construct
    \/ ReadGenotypesChunk
    \/ ReadVariantInfoChunk
    \/ ReadSampleInfoChunk

Spec == Init /\ [][Next]_vars

(***************************************************************************)
(* Properties.                                                             *)
(***************************************************************************)
\* The precondition of a window request: 0 <= v0 < v1 <= variantCount and
\* 0 <= s0 < s1 <= sampleCount.
ValidWindow(a) ==
    /\ 0 <= a[1] /\ a[1] < a[2] /\ a[2] <= variant_count
    /\ 0 <= a[3] /\ a[3] < a[4] /\ a[4] <= sample_count

\* DataOffset + floor((v0 * sampleCount + s0) / 4) as a mathematical integer
\* (the product itself may exceed TLC's integers; the quotient does not).
MathStartPos(v0, s0) ==
    DataOffset + v0 * (sample_count \div 4) + ((v0 * (sample_count % 4) + s0) \div 4)

\* Field k (from 0) of a tab-delimited line; <<>> if the line has no field k.
RECURSIVE TabField(_, _)
TabField(line, k) ==
    LET p == Find(line, TAB)
    IN  IF k = 0 THEN (IF p = Npos THEN line ELSE SubSeq(line, 1, p))
        ELSE IF p = Npos THEN <<>>
        ELSE TabField(SubSeq(line, p + 2, Len(line)), k - 1)

\* The number of tabs of a line.
Tabs(line) == Cardinality({i \in 1..Len(line) : line[i] = TAB})

\* The binary file has its 11 header bytes.
CompleteHeader == Len(pgen.hdr) = DataOffset

\* C1: a window request whose arguments violate 0 <= v0 < v1 <= variantCount
\* or 0 <= s0 < s1 <= sampleCount fails with a range error, and neither sizes
\* the window nor seeks nor reads (stated for files with a complete header).
C1_InvalidRangeFails ==
    (CompleteHeader /\ call.op = "genotypes" /\ ~ValidWindow(call.args)) =>
        /\ call.outcome = "out_of_range"
        /\ call.after = call.before
        /\ call.seekTo = -1
        /\ call.reads = 0

\* C2: after a window request with valid arguments, whatever the container
\* held before, the container has s1 - s0 rows of v1 - v0 columns each
\* (stated for files with a complete header and for calls that write inside
\* the rows they find).
C2_WindowShape ==
    (CompleteHeader /\ call.op = "genotypes" /\ ValidWindow(call.args) /\ ~call.overrun) =>
        /\ call.outcome = "ok"
        /\ Len(call.after) = call.args[4] - call.args[3]
        /\ \A i \in 1..Len(call.after) : Len(call.after[i]) = call.args[2] - call.args[1]

\* C3: a valid window request on a file that holds the bytes reads
\* (v1-v0)*(s1-s0) bytes from offset 11 + floor((v0*sampleCount + s0)/4),
\* computed without wraparound, and puts the decoding of byte
\* (v-v0)*(s1-s0) + (s-s0) of that run at window[s-s0][v-v0] (stated for
\* files with a complete header, for an empty container and for a stream no
\* read has failed on).
C3_WindowContents ==
    LET a  == call.args
        nv == a[2] - a[1]
        ns == a[4] - a[3]
        start == MathStartPos(a[1], a[3])
    IN  (/\ CompleteHeader
         /\ call.op = "genotypes"
         /\ call.before = <<>>
         /\ ~pgen_file.fail
         /\ ValidWindow(a)
         /\ FileLen(pgen) >= start + nv * ns) =>
            /\ call.outcome = "ok"
            /\ call.seekTo = start
            /\ call.got = nv * ns
            /\ Len(call.after) = ns
            /\ \A i \in 1..ns :
                 /\ Len(call.after[i]) >= nv
                 /\ \A j \in 1..nv :
                      call.after[i][j] = Decode(ByteAt(pgen, start + (j - 1) * ns + (i - 1)))

\* C4: after any earlier calls, a field-range request over [r0, r1) with
\* r1 <= recordCount on a file that has these records gives r1 - r0
\* identifiers, the i-th being the selected field of the line that follows
\* the header line and r0 + i further lines, counted from the start of the
\* file.
C4_FieldRange ==
    LET r0 == call.args[1]
        r1 == call.args[2]
        f  == IF call.op = "variants" THEN pvar ELSE psam
        k  == IF call.op = "variants" THEN 1 ELSE 0
        n  == IF call.op = "variants" THEN variant_count ELSE sample_count
    IN  (/\ call.op \in {"variants", "samples"}
         /\ r0 < r1 /\ r1 <= n
         /\ Len(f.lines) >= 1 + r1
         /\ \A i \in (r0 + 1)..r1 : Tabs(f.lines[1 + i]) >= k) =>
            /\ call.outcome = "ok"
            /\ call.after = call.before \o [i \in 1..(r1 - r0) |-> TabField(f.lines[1 + r0 + i], k)]

\* C5: a binary file whose first two bytes are not (0x6C, 0x1B) makes the
\* constructor fail with the format error; no reader exists and no call is
\* ever made on it.
C5_BadMagicRejected ==
    (/\ missing = "none"
     /\ Len(pgen.hdr) >= 2
     /\ ~(pgen.hdr[1] = 108 /\ pgen.hdr[2] = 27)
     /\ phase # "new") =>
        /\ phase = "failed"
        /\ error = "format"
        /\ call = NoCall

\* A constructor that threw the format error on a file of two bytes or more.
C5_Witness ==
    /\ phase = "failed"
    /\ error = "format"
    /\ Len(pgen.hdr) >= 2
    /\ pgen.hdr[1] = 108
    /\ pgen.hdr[2] # 27

\* C6: a reader is constructed only for files whose mode byte (offset 2)
\* is 0x10.
C6_ModeChecked ==
    (phase = "ready" /\ Len(pgen.hdr) >= 3) => pgen.hdr[3] = 16

\* C7: a valid window request that needs more bytes than the file holds from
\* the start offset does not return a window (stated for files with a
\* complete header and for an empty container).
C7_ShortReadFails ==
    LET a == call.args
    IN  (/\ CompleteHeader
         /\ call.op = "genotypes"
         /\ call.before = <<>>
         /\ ValidWindow(a)
         /\ FileLen(pgen) < StartPos(a[1], a[3]) + (a[2] - a[1]) * (a[4] - a[3])) =>
            call.outcome # "ok"

\* C8: a field-range request within the declared count does not return when
\* one of the lines of its records does not exist or, for the variant file,
\* has no tab.
C8_MalformedLineFails ==
    LET r0 == call.args[1]
        r1 == call.args[2]
    IN  /\ (/\ call.op = "variants"
            /\ r0 < r1 /\ r1 <= variant_count
            /\ \E i \in (r0 + 1)..r1 :
                 1 + i > Len(pvar.lines) \/ Find(pvar.lines[1 + i], TAB) = Npos) =>
               call.outcome # "ok"
        /\ (/\ call.op = "samples"
            /\ r0 < r1 /\ r1 <= sample_count
            /\ \E i \in (r0 + 1)..r1 : 1 + i > Len(psam.lines)) =>
               call.outcome # "ok"

\* C9: a window request with the same in-bounds arguments as the reader's
\* first one leaves the window the first one left, whatever calls were made
\* in between (stated for files with a complete header, for the watched
\* request and for an empty container).
C9_SameArgsSameWindow ==
    (/\ CompleteHeader
     /\ first.state = "window"
     /\ call.op = "genotypes"
     /\ call.args = Watched
     /\ call.before = <<>>
     /\ ValidWindow(call.args)
     /\ call.outcome = "ok") =>
        call.after = first.window

\* C10: a call that fails with the range error has called neither seekg nor
\* read nor getline, and leaves the caller's container and the three streams
\* as they were.
C10_RangeErrorFrame ==
    [][call'.outcome = "out_of_range" =>
           /\ call'.after = call'.before
           /\ call'.seekTo = -1
           /\ call'.reads = 0
           /\ UNCHANGED <<pgen_file, pvar_file, psam_file>>]_vars

\* A range error of readGenotypesChunk on a container that is not empty,
\* after an earlier call has moved the binary stream.
C10_Witness ==
    /\ call.op = "genotypes"
    /\ call.outcome = "out_of_range"
    /\ call.before # <<>>
    /\ pgen_file.pos > DataOffset

====
